---- MODULE Spec2Model ----
(***************************************************************************)
(* Model of the two reporting tools of db-performance-observer:            *)
(*   scripts/format_results.py  (single-run formatter)                     *)
(*   scripts/plot_results.py    (multi-scale aggregator)                   *)
(*                                                                         *)
(* Text is a sequence of tokens (TLA+ strings).  A name such as "10" is    *)
(* the token sequence <<"1","0">>, so that int(), lexical comparison and   *)
(* splitting at "\n" are computed character by character.                  *)
(* Numbers: throughput_ops is held in hundredths and the latencies in      *)
(* thousandths, so that the fixed-point formats .2f and .3f are exact.     *)
(***************************************************************************)
EXTENDS Integers, Sequences, FiniteSets, TLC

VARIABLES
    fs,             \* plot_results: root/db directory, name -> entry
    rootExists,     \* plot_results: whether root/db exists
    pltAvailable,   \* plot_results: whether matplotlib can be imported
    outDirExisted,  \* plot_results: whether --output existed before the run
    outDirExists,   \* plot_results: whether --output exists now
    pc,             \* plot_results: position in main()
    listing,        \* plot_results: sorted(root.iterdir()) of collect
    i,              \* plot_results: loop index of collect / of the chart loops
    data,           \* plot_results: the aggregate, a dict in insertion order
    stderr,         \* plot_results: warnings printed to sys.stderr
    exit,           \* plot_results: "running", "0" or "raised"
    err,            \* plot_results: the uncaught exception, "" when none
    summary,        \* plot_results: summary.md, [exists, text]
    charts,         \* plot_results: the PNG files written
    input,          \* format_results: the content of --input
    outFile0,       \* format_results: --output before the run
    outFile,        \* format_results: --output now
    fpc,            \* format_results: position in main()
    rowsLoaded,     \* format_results: the value json.load returned
    md,             \* format_results: the string to_markdown returned
    fexit,          \* format_results: "running", "0" or "raised"
    ferr            \* format_results: the uncaught exception, "" when none

vars == <<fs, rootExists, pltAvailable, outDirExisted, outDirExists, pc, listing,
          i, data, stderr, exit, err, summary, charts,
          input, outFile0, outFile, fpc, rowsLoaded, md, fexit, ferr>>

aggVars == <<fs, rootExists, pltAvailable, outDirExisted, outDirExists, pc, listing,
             i, data, stderr, exit, err, summary, charts>>

fmtVars == <<input, outFile0, outFile, fpc, rowsLoaded, md, fexit, ferr>>

----------------------------------------------------------------------------
(* Bounds of the model *)

\* most entries in root/db
MaxDirs == 2
\* most records in one bench.json read by the aggregator
MaxRows == 1
\* most elements of the array read by the single-run formatter
MaxRecords == 2

----------------------------------------------------------------------------
(* Strings *)

Digits == {"0", "1", "2", "3", "4", "5", "6", "7", "8", "9"}

\* code point of a character (the characters the model uses)
Ord(c) ==
    CASE c = "0" -> 48 [] c = "1" -> 49 [] c = "2" -> 50 [] c = "3" -> 51
      [] c = "4" -> 52 [] c = "5" -> 53 [] c = "6" -> 54 [] c = "7" -> 55
      [] c = "8" -> 56 [] c = "9" -> 57 [] c = "a" -> 97 [] c = "b" -> 98
      [] c = "x" -> 120

\* str < str of Python: code point by code point, a proper prefix first
RECURSIVE LexLess(_, _)
LexLess(s, t) ==
    IF t = <<>> THEN FALSE
    ELSE IF s = <<>> THEN TRUE
    ELSE IF Head(s) = Head(t) THEN LexLess(Tail(s), Tail(t))
    ELSE Ord(Head(s)) < Ord(Head(t))

\* whether int(x) succeeds: over the model's characters, a non-empty digit string
IntConvertible(x) == Len(x) > 0 /\ \A k \in 1..Len(x) : x[k] \in Digits

\* int(x) of a digit string
RECURSIVE IntOf(_)
IntOf(x) ==
    IF x = <<>> THEN 0
    ELSE IntOf(SubSeq(x, 1, Len(x) - 1)) * 10 + (Ord(x[Len(x)]) - 48)

\* sorted(S) of a set of strings
RECURSIVE SortStrings(_)
SortStrings(S) ==
    IF S = {} THEN <<>>
    ELSE LET m == CHOOSE a \in S : \A b \in S \ {a} : LexLess(a, b)
         IN  <<m>> \o SortStrings(S \ {m})

\* n written with exactly w digits (n < 10^w)
RECURSIVE Pad(_, _)
Pad(n, w) == IF w = 0 THEN "" ELSE Pad(n \div 10, w - 1) \o ToString(n % 10)

\* f"{v:.2f}" of a value held in hundredths
Fmt2(v) == <<ToString(v \div 100) \o "." \o Pad(v % 100, 2)>>

\* f"{v:.3f}" of a value held in thousandths
Fmt3(v) == <<ToString(v \div 1000) \o "." \o Pad(v % 1000, 3)>>

\* sep.join(parts), parts a sequence of strings
RECURSIVE Join(_, _)
Join(parts, sep) ==
    IF parts = <<>> THEN <<>>
    ELSE IF Len(parts) = 1 THEN parts[1]
    ELSE parts[1] \o sep \o Join(Tail(parts), sep)

\* text.split(sep) for a one-token separator: the inverse of Join
RECURSIVE Split(_, _)
Split(text, sep) ==
    IF \A k \in 1..Len(text) : text[k] # sep THEN <<text>>
    ELSE LET p == CHOOSE k \in 1..Len(text) :
                      text[k] = sep /\ \A j \in 1..(k - 1) : text[j] # sep
         IN  <<SubSeq(text, 1, p - 1)>> \o Split(SubSeq(text, p + 1, Len(text)), sep)

----------------------------------------------------------------------------
(* Records *)

\* row.get(key, default)
Get(row, key, default) == IF key \in DOMAIN row THEN row[key] ELSE default

\* str(row.get("ops", "")) and f"{row.get('ops','')}"
OpsCell(row) == IF "ops" \in DOMAIN row THEN <<ToString(row["ops"])>> ELSE <<>>

\* a full record, scenario "a"
RecA == [scenario |-> <<"a">>, ops |-> 1000, throughput_ops |-> 50050,
         p50_ms |-> 1200, p95_ms |-> 3400, p99_ms |-> 5600]
\* scenario "ab", without ops, p50_ms, p95_ms
RecB == [scenario |-> <<"a", "b">>, throughput_ops |-> 123450, p99_ms |-> 2000]
\* scenario "a" again, without any metric
RecA2 == [scenario |-> <<"a">>, ops |-> 7]
\* a record without scenario
RecN == [ops |-> 5, throughput_ops |-> 100, p99_ms |-> 9000]

RecordPool == {RecA, RecB, RecA2, RecN}

RECURSIVE SeqsUpTo(_, _)
\* the sequences over S of length at most n
SeqsUpTo(S, n) ==
    IF n = 0 THEN {<<>>}
    ELSE LET shorter == SeqsUpTo(S, n - 1)
         IN  shorter \cup {Append(q, e) : q \in {t \in shorter : Len(t) = n - 1}, e \in S}

----------------------------------------------------------------------------
(* plot_results.py: the file system the aggregator reads *)

ScaleNames == {<<"2">>, <<"1", "0">>, <<"x">>}

\* the bench.json contents json.load accepts: arrays of records
BenchFiles == SeqsUpTo(RecordPool, MaxRows)

\* an entry of root/db: a plain file, a directory without bench.json, a
\* directory whose bench.json json.load rejects, a directory with a bench.json
Entries ==
    {[kind |-> k, rows |-> <<>>] : k \in {"file", "nobench", "corrupt"}}
        \cup {[kind |-> "ok", rows |-> r] : r \in BenchFiles}

FileSystems ==
    UNION {[S -> Entries] : S \in {T \in SUBSET ScaleNames : Cardinality(T) <= MaxDirs}}

NoFile == [exists |-> FALSE, text |-> <<>>]

Warn(kind, name) == [kind |-> kind, name |-> name]

----------------------------------------------------------------------------
(* plot_results.py: pure parts *)

\* the dict with no key
EmptyRow == [k \in {} |-> 0]

\* {row["scenario"]: row for row in rows}: the last record of a scenario wins
RowsByScenario(rows) ==
    [s \in {rows[k]["scenario"] : k \in 1..Len(rows)} |->
        rows[CHOOSE k \in 1..Len(rows) :
                 /\ rows[k]["scenario"] = s
                 /\ \A j \in (k + 1)..Len(rows) : rows[j]["scenario"] # s]]

\* whether row["scenario"] raises KeyError for a record of rows
ScenarioKeyError(rows) == \E k \in 1..Len(rows) : "scenario" \notin DOMAIN rows[k]

\* data.keys(), in insertion order
Keys(d) == [k \in 1..Len(d) |-> d[k].name]

\* data[scale]
Rows(d, scale) == (CHOOSE e \in {d[k] : k \in 1..Len(d)} : e.name = scale).rows

\* the scenario set of write_markdown and of plot, sorted
Scenarios(d) == SortStrings(UNION {DOMAIN d[k].rows : k \in 1..Len(d)})

\* sorted(seq, key=int): stable, equal keys keep the order of seq
RECURSIVE SortByInt(_)
SortByInt(seq) ==
    IF seq = <<>> THEN <<>>
    ELSE LET x == seq[Len(seq)]
             done == SortByInt(SubSeq(seq, 1, Len(seq) - 1))
             after == {k \in 1..Len(done) : IntOf(x) < IntOf(done[k])}
             p == IF after = {} THEN Len(done) + 1
                  ELSE CHOOSE k \in after : \A j \in after : k <= j
         IN  SubSeq(done, 1, p - 1) \o <<x>> \o SubSeq(done, p, Len(done))

\* mutant of SortedScales: the keys in insertion order, not sorted
UnsortedScales(d) == Keys(d)

\* mutant of SortedScales: sorted(data.keys()), the key=int left out
LexicalScales(d) == SortStrings({d[k].name : k \in 1..Len(d)})

\* sorted(data.keys(), key=lambda x: int(x))
SortedScales(d) == SortByInt(Keys(d))

\* whether int(x) raises ValueError for a key of data
ScaleValueError(d) == \E k \in 1..Len(d) : ~IntConvertible(d[k].name)

\* the table row of write_markdown for one scale
ScaleRow(d, scale, scenario) ==
    LET rows == Rows(d, scale)
        row == IF scenario \in DOMAIN rows THEN rows[scenario] ELSE EmptyRow
    IN  <<"| ">> \o scale \o <<" | ">> \o OpsCell(row) \o <<" | ">>
            \o Fmt2(Get(row, "throughput_ops", 0)) \o <<" | ">>
            \o Fmt3(Get(row, "p50_ms", 0)) \o <<" | ">>
            \o Fmt3(Get(row, "p95_ms", 0)) \o <<" | ">>
            \o Fmt3(Get(row, "p99_ms", 0)) \o <<" |">>

\* mutant of SectionRows: a scale without a record of the scenario gets no row
SectionRowsPresentOnly(d, scenario) ==
    LET scales == SelectSeq(SortedScales(d), LAMBDA x : scenario \in DOMAIN Rows(d, x))
    IN  [k \in 1..Len(scales) |-> ScaleRow(d, scales[k], scenario)]

\* the rows of one section, one per scale of sorted(data.keys(), key=int)
SectionRows(d, scenario) ==
    LET scales == SortedScales(d)
    IN  [k \in 1..Len(scales) |-> ScaleRow(d, scales[k], scenario)]

AggHeader == <<"| scale | ops | throughput_ops | p50_ms | p95_ms | p99_ms |">>
AggSeparator == <<"| --- | --- | --- | --- | --- | --- |">>

\* the lines write_markdown appends for one scenario
Section(d, scenario) ==
    <<(<<"## ">> \o scenario), AggHeader, AggSeparator>>
        \o SectionRows(d, scenario) \o << <<>> >>

RECURSIVE Sections(_, _)
Sections(d, scenarios) ==
    IF scenarios = <<>> THEN <<>>
    ELSE Section(d, Head(scenarios)) \o Sections(d, Tail(scenarios))

\* the list `lines` of write_markdown
MarkdownLines(d) == Sections(d, Scenarios(d))

\* the text write_markdown writes
MarkdownText(d) == Join(MarkdownLines(d), <<"\n">>)

\* whether write_markdown raises: int(x) runs only inside the scenario loop
MarkdownRaises(d) == Scenarios(d) # <<>> /\ ScaleValueError(d)

\* whether row[metric] raises KeyError while a chart of plot collects vals
ChartKeyError(d, scenario, metric) ==
    \E k \in 1..Len(d) :
        scenario \in DOMAIN d[k].rows /\ metric \notin DOMAIN d[k].rows[scenario]

\* the chart plot draws for one scenario and metric: ax.plot(scales, vals)
Chart(d, scenario, metric) ==
    LET scales == SortedScales(d)
    IN  [scenario |-> scenario, metric |-> metric, xs |-> scales,
         ys |-> [k \in 1..Len(scales) |->
                    IF scenario \in DOMAIN Rows(d, scales[k])
                    THEN Rows(d, scales[k])[scenario][metric] ELSE 0]]

----------------------------------------------------------------------------
(* plot_results.py: main() *)

\* an exception nobody catches ends the run
Raise(e) == exit' = "raised" /\ err' = e /\ pc' = "done"

\* the formatter is not running
FormatIdle ==
    /\ input = [kind |-> "none", items |-> <<>>]
    /\ outFile0 = NoFile /\ outFile = NoFile
    /\ fpc = "idle" /\ rowsLoaded = <<>> /\ md = <<>>
    /\ fexit = "running" /\ ferr = ""

AggStart ==
    /\ outDirExists = outDirExisted
    /\ pc = "ensure_output" /\ listing = <<>> /\ i = 1 /\ data = <<>>
    /\ stderr = <<>> /\ exit = "running" /\ err = ""
    /\ summary = NoFile /\ charts = {}

Init ==
    /\ rootExists \in BOOLEAN
    /\ fs \in FileSystems
    /\ rootExists = FALSE => fs = <<>>
    /\ pltAvailable \in BOOLEAN
    /\ outDirExisted \in BOOLEAN
    /\ AggStart
    /\ FormatIdle

\* ensure_output(output_dir): mkdir(parents=True, exist_ok=True)
EnsureOutput ==
    /\ pc = "ensure_output"
    /\ outDirExists' = TRUE
    /\ pc' = "collect"
    /\ UNCHANGED fmtVars
    /\ UNCHANGED <<fs, rootExists, pltAvailable, outDirExisted, listing, i, data,
                   stderr, exit, err, summary, charts>>

\* collect: sorted(root.iterdir()); iterdir raises when root/db does not exist
CollectList ==
    /\ pc = "collect"
    /\ IF rootExists
       THEN /\ listing' = SortStrings(DOMAIN fs)
            /\ i' = 1
            /\ pc' = "collect_loop"
            /\ UNCHANGED <<exit, err>>
       ELSE /\ Raise("FileNotFoundError")
            /\ UNCHANGED <<listing, i>>
    /\ UNCHANGED fmtVars
    /\ UNCHANGED <<fs, rootExists, pltAvailable, outDirExisted, outDirExists, data,
                   stderr, summary, charts>>

CollectAt(kind) ==
    /\ pc = "collect_loop"
    /\ i <= Len(listing)
    /\ fs[listing[i]].kind = kind

\* if not scale_dir.is_dir(): continue
CollectSkipNotDir ==
    /\ CollectAt("file")
    /\ i' = i + 1
    /\ UNCHANGED fmtVars
    /\ UNCHANGED <<fs, rootExists, pltAvailable, outDirExisted, outDirExists, pc,
                   listing, data, stderr, exit, err, summary, charts>>

\* if not bench.exists(): continue
CollectSkipNoBench ==
    /\ CollectAt("nobench")
    /\ i' = i + 1
    /\ UNCHANGED fmtVars
    /\ UNCHANGED <<fs, rootExists, pltAvailable, outDirExisted, outDirExists, pc,
                   listing, data, stderr, exit, err, summary, charts>>

\* load_bench raises: the warning is printed and the loop continues
CollectLoadFails ==
    /\ CollectAt("corrupt")
    /\ stderr' = Append(stderr, Warn("load", listing[i]))
    /\ i' = i + 1
    /\ UNCHANGED fmtVars
    /\ UNCHANGED <<fs, rootExists, pltAvailable, outDirExisted, outDirExists, pc,
                   listing, data, exit, err, summary, charts>>

\* data[scale_dir.name] = {row["scenario"]: row for row in rows}
CollectLoad ==
    /\ CollectAt("ok")
    /\ LET rows == fs[listing[i]].rows
       IN  IF ScenarioKeyError(rows)
           THEN /\ Raise("KeyError: scenario")
                /\ UNCHANGED <<i, data>>
           ELSE /\ data' = Append(data, [name |-> listing[i],
                                         rows |-> RowsByScenario(rows)])
                /\ i' = i + 1
                /\ UNCHANGED <<pc, exit, err>>
    /\ UNCHANGED fmtVars
    /\ UNCHANGED <<fs, rootExists, pltAvailable, outDirExisted, outDirExists,
                   listing, stderr, summary, charts>>

\* return data
CollectReturn ==
    /\ pc = "collect_loop"
    /\ i > Len(listing)
    /\ pc' = "check"
    /\ UNCHANGED fmtVars
    /\ UNCHANGED <<fs, rootExists, pltAvailable, outDirExisted, outDirExists,
                   listing, i, data, stderr, exit, err, summary, charts>>

\* mutant of CheckData: the empty aggregate is not checked for
CheckDataNoExit ==
    /\ pc = "check"
    /\ pc' = "write_markdown"
    /\ UNCHANGED fmtVars
    /\ UNCHANGED <<fs, rootExists, pltAvailable, outDirExisted, outDirExists,
                   listing, i, data, stderr, exit, err, summary, charts>>

\* if not data: warn and sys.exit(0)
CheckData ==
    /\ pc = "check"
    /\ IF data = <<>>
       THEN /\ stderr' = Append(stderr, Warn("nodata", <<>>))
            /\ exit' = "0"
            /\ pc' = "done"
       ELSE /\ pc' = "write_markdown"
            /\ UNCHANGED <<stderr, exit>>
    /\ UNCHANGED fmtVars
    /\ UNCHANGED <<fs, rootExists, pltAvailable, outDirExisted, outDirExists,
                   listing, i, data, err, summary, charts>>

\* write_markdown(data, output_dir / "summary.md")
WriteMarkdown ==
    /\ pc = "write_markdown"
    /\ IF MarkdownRaises(data)
       THEN /\ Raise("ValueError")
            /\ UNCHANGED summary
       ELSE /\ summary' = [exists |-> TRUE, text |-> MarkdownText(data)]
            /\ pc' = "plot_import"
            /\ UNCHANGED <<exit, err>>
    /\ UNCHANGED fmtVars
    /\ UNCHANGED <<fs, rootExists, pltAvailable, outDirExisted, outDirExists,
                   listing, i, data, stderr, charts>>

\* mutant of PlotImportFails: the failed import is not caught
PlotImportRaises ==
    /\ pc = "plot_import"
    /\ ~pltAvailable
    /\ Raise("ModuleNotFoundError")
    /\ UNCHANGED fmtVars
    /\ UNCHANGED <<fs, rootExists, pltAvailable, outDirExisted, outDirExists,
                   listing, i, data, stderr, summary, charts>>

\* plot: import matplotlib.pyplot fails, a warning and return
PlotImportFails ==
    /\ pc = "plot_import"
    /\ ~pltAvailable
    /\ stderr' = Append(stderr, Warn("noplt", <<>>))
    /\ exit' = "0"
    /\ pc' = "done"
    /\ UNCHANGED fmtVars
    /\ UNCHANGED <<fs, rootExists, pltAvailable, outDirExisted, outDirExists,
                   listing, i, data, err, summary, charts>>

\* plot: the import succeeds; scenarios and scales are computed
PlotImportOk ==
    /\ pc = "plot_import"
    /\ pltAvailable
    /\ IF ScaleValueError(data)
       THEN /\ Raise("ValueError")
            /\ UNCHANGED i
       ELSE /\ pc' = "plot_throughput"
            /\ i' = 1
            /\ UNCHANGED <<exit, err>>
    /\ UNCHANGED fmtVars
    /\ UNCHANGED <<fs, rootExists, pltAvailable, outDirExisted, outDirExists,
                   listing, data, stderr, summary, charts>>

\* one pass of a chart loop of plot, for scenarios[i]
PlotChart(at, metric) ==
    /\ pc = at
    /\ i <= Len(Scenarios(data))
    /\ LET scenario == Scenarios(data)[i]
       IN  IF ChartKeyError(data, scenario, metric)
           THEN /\ Raise("KeyError: " \o metric)
                /\ UNCHANGED <<i, charts>>
           ELSE /\ charts' = charts \cup {Chart(data, scenario, metric)}
                /\ i' = i + 1
                /\ UNCHANGED <<pc, exit, err>>
    /\ UNCHANGED fmtVars
    /\ UNCHANGED <<fs, rootExists, pltAvailable, outDirExisted, outDirExists,
                   listing, data, stderr, summary>>

\* the throughput chart of one scenario
PlotThroughput == PlotChart("plot_throughput", "throughput_ops")

\* the throughput loop ends, the p99 loop starts
PlotThroughputDone ==
    /\ pc = "plot_throughput"
    /\ i > Len(Scenarios(data))
    /\ pc' = "plot_p99"
    /\ i' = 1
    /\ UNCHANGED fmtVars
    /\ UNCHANGED <<fs, rootExists, pltAvailable, outDirExisted, outDirExists,
                   listing, data, stderr, exit, err, summary, charts>>

\* the p99 chart of one scenario
PlotP99 == PlotChart("plot_p99", "p99_ms")

\* plot returns, main returns
PlotReturn ==
    /\ pc = "plot_p99"
    /\ i > Len(Scenarios(data))
    /\ exit' = "0"
    /\ pc' = "done"
    /\ UNCHANGED fmtVars
    /\ UNCHANGED <<fs, rootExists, pltAvailable, outDirExisted, outDirExists,
                   listing, i, data, stderr, err, summary, charts>>

Next ==
    \/ EnsureOutput
    \/ CollectList
    \/ CollectSkipNotDir
    \/ CollectSkipNoBench
    \/ CollectLoadFails
    \/ CollectLoad
    \/ CollectReturn
    \/ CheckData
    \/ WriteMarkdown
    \/ PlotImportFails
    \/ PlotImportOk
    \/ PlotThroughput
    \/ PlotThroughputDone
    \/ PlotP99
    \/ PlotReturn

Spec == Init /\ [][Next]_vars

----------------------------------------------------------------------------
(* format_results.py *)

\* an element of a JSON value as iteration yields it: a mapping, or something
\* that is no mapping (a number, a string, a key of an object, a character)
MapElement(r) == [isMap |-> TRUE, rec |-> r]
NonMapElement == [isMap |-> FALSE, rec |-> EmptyRow]

ElementPool == {MapElement(r) : r \in RecordPool} \cup {NonMapElement}

\* the contents of --input: text json.load rejects, or a JSON value with the
\* elements iterating over it yields (a scalar cannot be iterated)
Inputs ==
    {[kind |-> "invalid", items |-> <<>>], [kind |-> "scalar", items |-> <<>>]}
        \cup {[kind |-> k, items |-> [j \in 1..n |-> NonMapElement]] :
                k \in {"object", "string"}, n \in 0..MaxRecords}
        \cup {[kind |-> "array", items |-> q] : q \in SeqsUpTo(ElementPool, MaxRecords)}

OldFile == [exists |-> TRUE, text |-> <<"old">>]

FmtHeaders ==
    << <<"scenario">>, <<"ops">>, <<"throughput_ops">>, <<"p50_ms">>, <<"p95_ms">>,
       <<"p99_ms">> >>

\* "| " + " | ".join(headers) + " |"
FmtHeaderLine == <<"| ">> \o Join(FmtHeaders, <<" | ">>) \o <<" |">>

\* "|" + "|".join([" --- "] * len(headers)) + "|"
FmtSeparatorLine ==
    <<"|">> \o Join([k \in 1..Len(FmtHeaders) |-> <<" --- ">>], <<"|">>) \o <<"|">>

\* the line to_markdown appends for one record
FmtRow(row) ==
    <<"| ">>
        \o Join(<<Get(row, "scenario", <<>>), OpsCell(row),
                  Fmt2(Get(row, "throughput_ops", 0)), Fmt3(Get(row, "p50_ms", 0)),
                  Fmt3(Get(row, "p95_ms", 0)), Fmt3(Get(row, "p99_ms", 0))>>, <<" | ">>)
        \o <<" |">>

\* mutant of FmtLines: one row per scenario name, the last record of it
FmtLinesLastPerScenario(items) ==
    LET keep == SelectSeq([k \in 1..Len(items) |-> k],
                          LAMBDA k : \A j \in (k + 1)..Len(items) :
                              Get(items[j].rec, "scenario", <<>>)
                                  # Get(items[k].rec, "scenario", <<>>))
    IN  <<FmtHeaderLine, FmtSeparatorLine>>
            \o [k \in 1..Len(keep) |-> FmtRow(items[keep[k]].rec)]

\* the list `lines` of to_markdown
FmtLines(items) ==
    <<FmtHeaderLine, FmtSeparatorLine>> \o [k \in 1..Len(items) |-> FmtRow(items[k].rec)]

\* to_markdown(rows): "\n".join(lines) + "\n"
ToMarkdownText(items) == Join(FmtLines(items), <<"\n">>) \o <<"\n">>

FRaise(e) == fexit' = "raised" /\ ferr' = e /\ fpc' = "done"

\* the aggregator is not running
AggIdle ==
    /\ fs = <<>> /\ rootExists = FALSE /\ pltAvailable = FALSE
    /\ outDirExisted = FALSE /\ outDirExists = FALSE
    /\ pc = "idle" /\ listing = <<>> /\ i = 1 /\ data = <<>>
    /\ stderr = <<>> /\ exit = "running" /\ err = ""
    /\ summary = NoFile /\ charts = {}

InitFormat ==
    /\ input \in Inputs
    /\ outFile0 \in {NoFile, OldFile}
    /\ outFile = outFile0
    /\ fpc = "load" /\ rowsLoaded = <<>> /\ md = <<>>
    /\ fexit = "running" /\ ferr = ""
    /\ AggIdle

\* rows = load_results(input_path): json.load raises on invalid JSON
LoadResults ==
    /\ fpc = "load"
    /\ IF input.kind = "invalid"
       THEN /\ FRaise("JSONDecodeError")
            /\ UNCHANGED rowsLoaded
       ELSE /\ rowsLoaded' = input.items
            /\ fpc' = "to_markdown"
            /\ UNCHANGED <<fexit, ferr>>
    /\ UNCHANGED <<input, outFile0, outFile, md>>
    /\ UNCHANGED aggVars

\* md = to_markdown(rows): `for row in rows` raises TypeError on a scalar,
\* row.get raises AttributeError on an element that is no mapping
ToMarkdown ==
    /\ fpc = "to_markdown"
    /\ IF input.kind = "scalar"
       THEN /\ FRaise("TypeError")
            /\ UNCHANGED md
       ELSE IF \E k \in 1..Len(rowsLoaded) : ~rowsLoaded[k].isMap
       THEN /\ FRaise("AttributeError")
            /\ UNCHANGED md
       ELSE /\ md' = ToMarkdownText(rowsLoaded)
            /\ fpc' = "write"
            /\ UNCHANGED <<fexit, ferr>>
    /\ UNCHANGED <<input, outFile0, outFile, rowsLoaded>>
    /\ UNCHANGED aggVars

\* output_path.write_text(md), main returns
WriteOutput ==
    /\ fpc = "write"
    /\ outFile' = [exists |-> TRUE, text |-> md]
    /\ fexit' = "0"
    /\ fpc' = "done"
    /\ UNCHANGED <<input, outFile0, rowsLoaded, md, ferr>>
    /\ UNCHANGED aggVars

NextFormat ==
    \/ LoadResults
    \/ ToMarkdown
    \/ WriteOutput

SpecFormat == InitFormat /\ [][NextFormat]_vars

----------------------------------------------------------------------------
(* write_markdown and plot on aggregates loaded in any order *)

OrderNames == {<<"2">>, <<"1", "0">>, <<"0", "1", "0">>}

\* the sequences that hold each element of S once
Orders(S) ==
    LET base == SortStrings(S)
    IN  {[k \in 1..Len(base) |-> base[f[k]]] : f \in Permutations(1..Len(base))}

\* the permutations of a sequence
SeqPermutations(q) == {[k \in 1..Len(q) |-> q[f[k]]] : f \in Permutations(1..Len(q))}

\* directories with integer names, each with a bench.json collect can index
OrderFileSystems ==
    UNION {[S -> {e \in Entries : e.kind = "ok" /\ ~ScenarioKeyError(e.rows)}] :
             S \in {T \in SUBSET OrderNames : Cardinality(T) <= MaxDirs}}

InitOrder ==
    /\ rootExists = TRUE
    /\ fs \in OrderFileSystems
    /\ pltAvailable = TRUE
    /\ outDirExisted = TRUE
    /\ AggStart
    /\ FormatIdle

\* the scales are handed to the loading loop of collect in any order
OrderList ==
    /\ pc = "collect"
    /\ listing' \in Orders(DOMAIN fs)
    /\ i' = 1
    /\ pc' = "collect_loop"
    /\ UNCHANGED fmtVars
    /\ UNCHANGED <<fs, rootExists, pltAvailable, outDirExisted, outDirExists, data,
                   stderr, exit, err, summary, charts>>

NextOrder ==
    \/ EnsureOutput
    \/ OrderList
    \/ CollectLoad
    \/ CollectReturn
    \/ CheckData
    \/ WriteMarkdown
    \/ PlotImportOk
    \/ PlotThroughput
    \/ PlotThroughputDone
    \/ PlotP99
    \/ PlotReturn

SpecOrder == InitOrder /\ [][NextOrder]_vars

----------------------------------------------------------------------------
(* Reading the state *)

\* the lines of summary.md
SummaryLines == Split(summary.text, "\n")

\* a table row of summary.md starts with "| " and its scale
IsRow(line) == line # <<>> /\ line[1] = "| "

\* a section heading of summary.md
IsHeading(line) == line # <<>> /\ line[1] = "## "

\* the cells of a table row
Cells(line) == Split(line, " | ")

\* the scale cell of a table row of summary.md
RowScale(line) == Tail(Cells(line)[1])

\* the scenario names of the aggregate
ScenarioSet(d) == UNION {DOMAIN d[k].rows : k \in 1..Len(d)}

\* the directories of root/db whose bench.json loads
Loadable == {n \in DOMAIN fs : fs[n].kind = "ok"}

\* collect has returned its aggregate to main
Collected ==
    \/ pc \in {"check", "write_markdown", "plot_import", "plot_throughput", "plot_p99"}
    \/ pc = "done" /\ err \notin {"FileNotFoundError", "KeyError: scenario"}

\* write_markdown has been called and has returned or raised
MarkdownCalled ==
    \/ pc \in {"plot_import", "plot_throughput", "plot_p99"}
    \/ pc = "done" /\ Collected /\ data # <<>>

\* the row write_markdown gives a scale that has no record of the scenario
BlankRow(scale) ==
    <<"| ">> \o scale
        \o <<" | ", " | ", "0.00", " | ", "0.000", " | ", "0.000", " | ", "0.000", " |">>

----------------------------------------------------------------------------
(* Claims *)

C2_CorruptFileSkipped ==
    (/\ pc \notin {"ensure_output", "collect", "collect_loop"}
     /\ \E k \in 1..Len(stderr) : stderr[k].kind = "load") =>
        /\ Collected
        /\ \A n \in DOMAIN fs :
             /\ fs[n].kind = "corrupt" =>
                  /\ \E k \in 1..Len(stderr) : stderr[k] = Warn("load", n)
                  /\ \A k \in 1..Len(data) : data[k].name # n
             /\ fs[n].kind = "ok" => \E k \in 1..Len(data) : data[k].name = n

\* C3 as claimed: when no directory of an existing root/db yields a loadable
\* bench.json, the run warns, exits 0, writes no summary and no chart, and
\* creates nothing.
C3_NothingCreated ==
    (pc = "done" /\ rootExists /\ Loadable = {}) =>
        /\ \E k \in 1..Len(stderr) : stderr[k] = Warn("nodata", <<>>)
        /\ exit = "0"
        /\ ~summary.exists
        /\ charts = {}
        /\ outDirExists = outDirExisted

\* C3 as amended: when no directory of an existing root/db yields a loadable
\* bench.json, the run warns, exits 0 and writes no summary and no chart; the
\* output directory exists afterwards, created by ensure_output if it was absent.
C3_NoFileWritten ==
    (pc = "done" /\ rootExists /\ Loadable = {}) =>
        /\ \E k \in 1..Len(stderr) : stderr[k] = Warn("nodata", <<>>)
        /\ exit = "0"
        /\ ~summary.exists
        /\ charts = {}
        /\ outDirExists

\* C3 witness: a run over directories none of which loads has ended, and the
\* output directory did not exist before it
C3_Witness ==
    /\ pc = "done" /\ rootExists /\ Loadable = {}
    /\ \E n \in DOMAIN fs : fs[n].kind = "corrupt"
    /\ ~outDirExisted

\* C4: a run whose aggregate holds a scale with a name int() rejects ends in a
\* fatal error, whatever the records and whether or not matplotlib is
\* available; a run in which every such directory has no loadable bench.json
\* raises no ValueError.
C4_NonIntegerScaleFatal ==
    /\ (pc = "done" /\ \E n \in Loadable : ~IntConvertible(n)) => exit = "raised"
    /\ (pc = "done" /\ \A n \in Loadable : IntConvertible(n)) => err # "ValueError"

\* C6: records lacking any of the fields make no tool fail: a run of the
\* aggregator over an existing root/db with integer scale names ends with exit
\* status 0.
C6_MissingKeysAccepted ==
    (pc = "done" /\ rootExists /\ \A n \in Loadable : IntConvertible(n)) => exit = "0"

\* C8: in summary.md the sections are in lexical order of scenario name and
\* the rows of a section in ascending order of int(scale); the x-axis of every
\* chart is in ascending order of int(scale).
C8_NumericScaleOrder ==
    /\ summary.exists =>
         LET L == SummaryLines
         IN  /\ \A g, h \in 1..Len(L) :
                  (g < h /\ IsHeading(L[g]) /\ IsHeading(L[h]))
                      => LexLess(Tail(L[g]), Tail(L[h]))
             /\ \A k \in 1..(Len(L) - 1) :
                  (IsRow(L[k]) /\ IsRow(L[k + 1]))
                      => IntOf(RowScale(L[k])) <= IntOf(RowScale(L[k + 1]))
    /\ \A c \in charts :
         \A k \in 1..(Len(c.xs) - 1) : IntOf(c.xs[k]) <= IntOf(c.xs[k + 1])

\* C8 witness: the summary and a chart hold the scales "2" and "10", and the
\* summary holds two sections
C8_Witness ==
    /\ summary.exists
    /\ Cardinality({k \in 1..Len(SummaryLines) : IsHeading(SummaryLines[k])}) = 2
    /\ \E k \in 1..(Len(SummaryLines) - 1) :
         /\ IsRow(SummaryLines[k]) /\ RowScale(SummaryLines[k]) = <<"2">>
         /\ IsRow(SummaryLines[k + 1]) /\ RowScale(SummaryLines[k + 1]) = <<"1", "0">>
    /\ \E c \in charts : c.xs = << <<"2">>, <<"1", "0">> >>

\* C9: for a non-empty aggregate with integer-convertible scale names the
\* summary is written before any chart step and stays written when the import
\* of matplotlib or a chart fails; a failed import yields a warning, exit
\* status 0 and no chart file.
C9_MarkdownBeforeCharts ==
    /\ (pc \in {"plot_import", "plot_throughput", "plot_p99"} \/ charts # {})
           => summary.exists
    /\ (MarkdownCalled /\ ~ScaleValueError(data))
           => summary.exists /\ summary.text = MarkdownText(data)
    /\ (pc = "done" /\ MarkdownCalled /\ ~ScaleValueError(data) /\ ~pltAvailable)
           => /\ \E k \in 1..Len(stderr) : stderr[k] = Warn("noplt", <<>>)
              /\ exit = "0"
              /\ charts = {}

\* C9 witness: a run without matplotlib has ended with the summary written
C9_Witness ==
    /\ pc = "done" /\ ~pltAvailable
    /\ data # <<>> /\ ~ScaleValueError(data)
    /\ summary.exists /\ summary.text # <<>>


\* C5: a run of the formatter on an input that is no array of mappings fails,
\* and --output is left as it was.
C5_MalformedInputFails ==
    (/\ fpc = "done"
     /\ ~(input.kind = "array" /\ \A k \in 1..Len(input.items) : input.items[k].isMap)) =>
        /\ fexit = "raised"
        /\ outFile = outFile0

\* C10: for an array of N records to_markdown returns N+2 lines and a trailing
\* newline: the header, the separator and one row per record, the i-th row
\* built from the i-th record (its scenario and ops cells are the record's),
\* and that text is what the run writes.
C10_RowPerRecord ==
    (/\ fpc \in {"write", "done"}
     /\ fexit # "raised"
     /\ input.kind = "array") =>
        LET L == Split(md, "\n")
            n == Len(input.items)
        IN  /\ Len(L) = n + 3
            /\ L[n + 3] = <<>>
            /\ L[1] = FmtHeaderLine
            /\ L[2] = FmtSeparatorLine
            /\ \A k \in 1..n :
                 LET rec == input.items[k].rec
                     cells == Cells(L[k + 2])
                 IN  /\ Len(cells) = Len(FmtHeaders)
                     /\ cells[1] = <<"| ">> \o Get(rec, "scenario", <<>>)
                     /\ cells[2] = OpsCell(rec)
                     /\ cells[3] = Fmt2(Get(rec, "throughput_ops", 0))
                     /\ cells[6] = Fmt3(Get(rec, "p99_ms", 0)) \o <<" |">>
            /\ fpc = "done" => outFile = [exists |-> TRUE, text |-> md]

\* C10 witness: the formatter has written the table of two records of the
\* same scenario
C10_Witness ==
    /\ fpc = "done" /\ fexit = "0"
    /\ input.kind = "array"
    /\ Len(input.items) = 2
    /\ input.items[1].rec = RecA2 /\ input.items[2].rec = RecA
    /\ outFile.exists

\* C7 as claimed: write_markdown and plot give the same text and the same
\* scale sequence for every order in which the scales of the aggregate were
\* loaded, names denoting the same integer included.
C7_AnyLoadOrder ==
    summary.exists =>
        \A d \in SeqPermutations(data) :
            /\ MarkdownText(d) = summary.text
            /\ \A c \in charts : c.xs = SortedScales(d)

\* C7 as amended: the same, for scale names that denote pairwise distinct
\* integers.
C7_AnyLoadOrderDistinctIntegers ==
    (/\ summary.exists
     /\ \A j, k \in 1..Len(data) :
          j # k => IntOf(data[j].name) # IntOf(data[k].name)) =>
        \A d \in SeqPermutations(data) :
            /\ MarkdownText(d) = summary.text
            /\ \A c \in charts : c.xs = SortedScales(d)

\* C7 witness: "2" was loaded before "10", against the order of the directory
\* listing, and the summary and a chart are written
C7_Witness ==
    /\ summary.exists /\ summary.text # <<>>
    /\ Keys(data) = << <<"2">>, <<"1", "0">> >>
    /\ charts # {}

====
